---- MODULE Spec2Model ----
(***************************************************************************)
(* Model of reegis_tools/scenario_tools.py: the duplicate-rejecting        *)
(* NodeDict, and the Scenario object with its table collection, its        *)
(* energy system, its model and its results.                               *)
(*                                                                         *)
(* Python values of different types are encoded so that they can be        *)
(* compared: None is the string "None" (node values, debug), the year is   *)
(* a record tagged with its type, an absent object is a record with        *)
(* id 0.  An exception raised by a call is recorded in err; a call that    *)
(* raises keeps every assignment it made before the raise.                 *)
(***************************************************************************)
EXTENDS Integers, Sequences, FiniteSets, TLC

VARIABLES nodes, pass, year, debug, location, table_collection, es, model,
          results, dumpfile, disk, saved, serial, last, err

vars == <<nodes, pass, year, debug, location, table_collection, es, model,
          results, dumpfile, disk, saved, serial, last, err>>

\* ------------------------------------------------------------------ bounds
MaxES == 2         \* energy systems created during one behaviour
MaxRuns == 2       \* successful solver runs during one behaviour

\* ------------------------------------------------------- program constants
DebugSteps == 3
LeapYearSteps == 8784
CommonYearSteps == 8760

\* ------------------------------------------------------------ input values
Keys == {"a", "b"}
NodeVals == {"None", "n1", "n2"}

\* the year: None, a string that is no number (such as 'abc'), or an int
NoneYear == [kind |-> "none", val |-> 0]
StrYear == [kind |-> "str", val |-> 0]
IntYear(y) == [kind |-> "int", val |-> y]
Years == {1900, 2000, 2019, 2020}
YearVals == {NoneYear, StrYear} \cup {IntYear(y) : y \in Years}
DebugVals == {"None", "True", "False"}

\* ------------------------------------------------------- values and errors
NoErr == [type |-> "none"]
KeyError(key) == [type |-> "KeyError", key |-> key]
YearTypeError(y) == [type |-> "TypeError", year |-> y]
Raised(type) == [type |-> type]

\* the call that produced the current state: op is the method; key, item,
\* table and year its arguments (of a registration, of check_table and of
\* initialise_es), had whether the object the call looks at (the key, the
\* table, the energy system, the model, a table to load over) existed
\* before the call, made whether initialise_energy_system returned a new
\* energy system during the call
Call(op, key, item, had, made) ==
    [op |-> op, key |-> key, item |-> item, table |-> <<>>,
     year |-> NoneYear, had |-> had, made |-> made]

\* ----------------------------------------------------------------- NodeDict
EmptyDict == [k \in {} |-> "None"]

\* dict.get(key): the stored item, None for an absent key
get(d, key) == IF key \in DOMAIN d THEN d[key] ELSE "None"

\* dict.__setitem__(key, item)
dict_setitem(d, key, item) ==
    [k \in DOMAIN d \cup {key} |-> IF k = key THEN item ELSE d[k]]

\* dict.values()
values(d) == {d[k] : k \in DOMAIN d}

\* the test inverted: an item is stored only over an item already there
NodeDict_accepts_inverted(d, key) == get(d, key) # "None"

\* the test of NodeDict.__setitem__ that lets an item be stored
NodeDict_accepts(d, key) == get(d, key) = "None"

\* NodeDict(): a new, empty node dictionary starts a build pass
NodeDict_init ==
    /\ nodes' = EmptyDict
    /\ pass' = [reuse |-> FALSE, stage |-> "registering"]
    /\ last' = Call("NodeDict", "None", "None", FALSE, FALSE)
    /\ err' = NoErr
    /\ UNCHANGED <<year, debug, location, table_collection, es, model,
                   results, dumpfile, disk, saved, serial>>

\* the build pass as its caller sees it: a registration that names a key
\* already in the dictionary is a reuse; the KeyError ends the pass
pass_after_setitem(p, d, key, raised) ==
    IF p.stage # "registering" THEN p
    ELSE [reuse |-> p.reuse \/ key \in DOMAIN d,
          stage |-> IF raised THEN "aborted" ELSE "registering"]

\* NodeDict.__setitem__(key, item)
NodeDict_setitem(key, item) ==
    /\ IF NodeDict_accepts(nodes, key)
       THEN /\ nodes' = dict_setitem(nodes, key, item)
            /\ err' = NoErr
       ELSE /\ nodes' = nodes
            /\ err' = KeyError(key)
    /\ pass' = pass_after_setitem(pass, nodes, key,
                                  ~NodeDict_accepts(nodes, key))
    /\ last' = Call("setitem", key, item, key \in DOMAIN nodes, FALSE)
    /\ UNCHANGED <<year, debug, location, table_collection, es, model,
                   results, dumpfile, disk, saved, serial>>

\* ------------------------------------------------------------ energy system
NoES == [id |-> 0, steps |-> 0, nodes |-> {}, main |-> 0, facets |-> {},
         meta |-> {}]

\* solph.EnergySystem(timeindex=...) with steps time steps, as object id
EnergySystem(id, steps) == [NoES EXCEPT !.id = id, !.steps = steps]

\* every fourth year taken for a leap year
isleap_every_fourth(y) == y % 4 = 0

\* calendar.isleap(year)
isleap(y) == y % 4 = 0 /\ (y % 100 # 0 \/ y % 400 = 0)

\* Scenario.initialise_energy_system: the error it raises, or the number of
\* time steps of the energy system it returns.  pd.date_range parses
\* '1/1/{year}' and rejects a year that is not a number.
initialise_energy_system(y, d) ==
    IF d = "True"
    THEN IF y.kind = "int"
         THEN [err |-> NoErr, steps |-> DebugSteps]
         ELSE [err |-> Raised("ValueError"), steps |-> 0]
    ELSE IF y.kind # "int"
         THEN [err |-> YearTypeError(y), steps |-> 0]
         ELSE [err |-> NoErr,
               steps |-> IF isleap(y.val) THEN LeapYearSteps
                         ELSE CommonYearSteps]

\* ----------------------------------------------------------------- Scenario
NoLocation == [dir |-> "None", file |-> "None"]
NoModel == [es |-> 0]
EmptyCollection == [n \in {} |-> <<>>]

\* Scenario(table_collection=tc, year=y, debug=d)
Scenario_init(tc, y, d) ==
    /\ table_collection' = tc
    /\ year' = y
    /\ debug' = d
    /\ model' = NoModel
    /\ es' = NoES
    /\ results' = 0
    /\ location' = NoLocation
    /\ pass' = [pass EXCEPT !.stage = IF @ \in {"added", "built"}
                                      THEN "registering" ELSE @]
    /\ last' = Call("Scenario", "None", "None", FALSE, FALSE)
    /\ err' = NoErr
    /\ UNCHANGED <<nodes, dumpfile, disk, saved, serial>>

\* Scenario.initialise_es(year=y)
initialise_es(y) ==
    /\ serial.es < MaxES
    /\ year' = IF y # NoneYear THEN y ELSE year
    /\ LET r == initialise_energy_system(year', debug) IN
       /\ err' = r.err
       /\ IF r.err.type = "none"
          THEN /\ es' = EnergySystem(serial.es + 1, r.steps)
               /\ serial' = [serial EXCEPT !.es = @ + 1]
          ELSE UNCHANGED <<es, serial>>
       /\ last' = [Call("initialise_es", "None", "None", es # NoES,
                        r.err.type = "none") EXCEPT !.year = y]
    /\ UNCHANGED <<nodes, pass, debug, location, table_collection, model,
                   results, dumpfile, disk, saved>>

\* add_nodes without the test for an existing energy system
add_nodes_reinit ==
    /\ serial.es < MaxES
    /\ LET r == initialise_energy_system(year, debug) IN
       /\ err' = r.err
       /\ IF r.err.type = "none"
          THEN /\ es' = [EnergySystem(serial.es + 1, r.steps)
                            EXCEPT !.nodes = values(nodes)]
               /\ serial' = [serial EXCEPT !.es = @ + 1]
          ELSE UNCHANGED <<es, serial>>
       /\ last' = Call("add_nodes", "None", "None", es # NoES,
                       r.err.type = "none")
    /\ pass' = IF pass.stage = "registering" /\ err'.type = "none"
               THEN [pass EXCEPT !.stage = "added"] ELSE pass
    /\ UNCHANGED <<nodes, year, debug, location, table_collection, model,
                   results, dumpfile, disk, saved>>

\* Scenario.add_nodes(nodes)
add_nodes ==
    /\ es = NoES => serial.es < MaxES
    /\ IF es = NoES
       THEN LET r == initialise_energy_system(year, debug) IN
            /\ err' = r.err
            /\ IF r.err.type = "none"
               THEN /\ es' = [EnergySystem(serial.es + 1, r.steps)
                                 EXCEPT !.nodes = values(nodes)]
                    /\ serial' = [serial EXCEPT !.es = @ + 1]
               ELSE UNCHANGED <<es, serial>>
            /\ last' = Call("add_nodes", "None", "None", FALSE,
                            r.err.type = "none")
       ELSE /\ es' = [es EXCEPT !.nodes = @ \cup values(nodes)]
            /\ err' = NoErr
            /\ last' = Call("add_nodes", "None", "None", TRUE, FALSE)
            /\ UNCHANGED serial
    /\ pass' = IF pass.stage = "registering" /\ err'.type = "none"
               THEN [pass EXCEPT !.stage = "added"] ELSE pass
    /\ UNCHANGED <<nodes, year, debug, location, table_collection, model,
                   results, dumpfile, disk, saved>>

\* Scenario.add_nodes2solph: create_nodes of this class returns None, whose
\* values() raises after the energy system has been initialised
add_nodes2solph ==
    /\ es = NoES => serial.es < MaxES
    /\ IF es = NoES
       THEN LET r == initialise_energy_system(year, debug) IN
            /\ IF r.err.type = "none"
               THEN /\ es' = EnergySystem(serial.es + 1, r.steps)
                    /\ serial' = [serial EXCEPT !.es = @ + 1]
                    /\ err' = Raised("AttributeError")
               ELSE /\ err' = r.err
                    /\ UNCHANGED <<es, serial>>
            /\ last' = Call("add_nodes2solph", "None", "None", FALSE,
                            r.err.type = "none")
       ELSE /\ err' = Raised("AttributeError")
            /\ last' = Call("add_nodes2solph", "None", "None", TRUE, FALSE)
            /\ UNCHANGED <<es, serial>>
    /\ UNCHANGED <<nodes, pass, year, debug, location, table_collection,
                   model, results, dumpfile, disk, saved>>

\* Scenario.create_model: solph.Model(None) raises on the missing time index
create_model ==
    /\ IF es = NoES
       THEN /\ err' = Raised("AttributeError")
            /\ UNCHANGED <<model, pass>>
       ELSE /\ model' = [es |-> es.id]
            /\ err' = NoErr
            /\ pass' = IF pass.stage = "added"
                       THEN [pass EXCEPT !.stage = "built"] ELSE pass
    /\ last' = Call("create_model", "None", "None", es # NoES, FALSE)
    /\ UNCHANGED <<nodes, year, debug, location, table_collection, es,
                   results, dumpfile, disk, saved, serial>>

\* the file written by es.dump: the pickled attributes of an energy system
\* (a pickle carries no object identity), or no file
NoDump == NoES
pickled(e) == [e EXCEPT !.id = 1]

\* Scenario.dump_es(filename)
dump_es ==
    /\ IF es = NoES
       THEN /\ err' = Raised("AttributeError")
            /\ UNCHANGED dumpfile
       ELSE /\ dumpfile' = pickled(es)
            /\ err' = NoErr
    /\ last' = Call("dump_es", "None", "None", es # NoES, FALSE)
    /\ UNCHANGED <<nodes, pass, year, debug, location, table_collection, es,
                   model, results, disk, saved, serial>>

\* Scenario.restore_es(filename): es.restore replaces the attributes of the
\* energy system object by the pickled ones
restore_es ==
    /\ es = NoES => serial.es < MaxES
    /\ LET base == IF es = NoES THEN EnergySystem(serial.es + 1, 0) ELSE es
       IN
       /\ serial' = IF es = NoES THEN [serial EXCEPT !.es = @ + 1]
                    ELSE serial
       /\ IF dumpfile = NoDump
          THEN /\ es' = base
               /\ err' = Raised("FileNotFoundError")
               /\ UNCHANGED results
          ELSE /\ es' = [dumpfile EXCEPT !.id = base.id]
               /\ IF dumpfile.main = 0
                  THEN /\ err' = Raised("TypeError")
                       /\ UNCHANGED results
                  ELSE /\ results' = dumpfile.main
                       /\ err' = NoErr
    /\ last' = Call("restore_es", "None", "None", es # NoES, FALSE)
    /\ UNCHANGED <<nodes, pass, year, debug, location, table_collection,
                   model, dumpfile, disk, saved>>

\* the facets Scenario.solve stores on the energy system
Facets == {"main", "meta", "param", "scenario"}

\* Scenario.solve: solver_ok is the outcome of the external model.solve;
\* os.path.getmtime(None) raises before self.results is assigned
solve(solver_ok) ==
    /\ serial.runs < MaxRuns
    /\ IF model = NoModel
       THEN /\ err' = Raised("AttributeError")
            /\ UNCHANGED <<es, results, serial>>
       ELSE IF ~solver_ok
       THEN /\ err' = Raised("SolverError")
            /\ UNCHANGED <<es, results, serial>>
       ELSE /\ serial' = [serial EXCEPT !.runs = @ + 1]
            /\ IF location = NoLocation
               THEN /\ es' = [es EXCEPT !.main = serial.runs + 1,
                                        !.facets = Facets,
                                        !.meta = {"in_location"}]
                    /\ err' = Raised("TypeError")
                    /\ UNCHANGED results
               ELSE /\ es' = [es EXCEPT !.main = serial.runs + 1,
                                        !.facets = Facets,
                                        !.meta = {"in_location", "file_date",
                                                  "oemof_version"}]
                    /\ results' = serial.runs + 1
                    /\ err' = NoErr
    /\ last' = Call("solve", "None", "None", model # NoModel, FALSE)
    /\ UNCHANGED <<nodes, pass, year, debug, location, table_collection,
                   model, dumpfile, disk, saved>>

\* ------------------------------------------------------------------- tables
\* a table name or file name is the sequence of its characters
CsvExt == <<".", "c", "s", "v">>
TableNames == {<<"a", " ", "b">>, <<"a", "_", "b">>, <<"c">>}
ForeignFile == <<"n", ".", "t", "x", "t">>

\* a table (DataFrame): its columns in order, NRows cells per column
Columns == <<"c1", "c2">>
ColumnSet == {Columns[i] : i \in 1..Len(Columns)}
NRows == 1
Cells == {"NaN", "x"}
Tables == [ColumnSet -> [1..NRows -> Cells]]

\* str.replace(' ', '_')
RECURSIVE replace(_)
replace(name) ==
    IF name = <<>> THEN <<>>
    ELSE <<IF Head(name) = " " THEN "_" ELSE Head(name)>>
         \o replace(Tail(name))

\* name.replace(' ', '_') + '.csv'
csv_filename(name) == replace(name) \o CsvExt

\* file[-4:]
last4(file) ==
    IF Len(file) <= 4 THEN file ELSE SubSeq(file, Len(file) - 3, Len(file))

\* file[:-4]
drop4(file) == SubSeq(file, 1, Len(file) - 4)

\* df.to_csv and df.to_excel write a missing value as an empty field;
\* pd.read_csv and xls.parse read an empty field as a missing value
written(df) ==
    [c \in DOMAIN df |->
        [r \in DOMAIN df[c] |-> IF df[c][r] = "NaN" THEN "" ELSE df[c][r]]]
parsed(text) ==
    [c \in DOMAIN text |->
        [r \in DOMAIN text[c] |->
            IF text[c][r] = "" THEN "NaN" ELSE text[c][r]]]

\* dict.update: the entries of new, and those of old under other keys
update(old, new) ==
    [k \in DOMAIN old \cup DOMAIN new |->
        IF k \in DOMAIN new THEN new[k] ELSE old[k]]

\* the locations the model loads from and saves to
CsvPath == [dir |-> "csv", file |-> ""]
ExcelFiles == {[dir |-> "out", file |-> "s.xlsx"],
               [dir |-> "", file |-> "s.xlsx"]}

\* Scenario.to_csv(path): the tables are written in the iteration order of
\* the collection, so a file that several names map to holds one of them
to_csv ==
    /\ LET names == {csv_filename(n) : n \in DOMAIN table_collection} IN
       \E w \in [names -> {written(t) : t \in Tables}] :
          /\ \A f \in names : \E n \in DOMAIN table_collection :
                /\ csv_filename(n) = f
                /\ w[f] = written(table_collection[n])
          /\ disk' = [disk EXCEPT !.isdir = TRUE,
                                  !.files = update(@, w)]
    /\ saved' = [saved EXCEPT
                   !.csv = table_collection,
                   !.fresh = \A f \in DOMAIN disk.files : last4(f) # CsvExt]
    /\ last' = Call("to_csv", "None", "None", disk.isdir, FALSE)
    /\ err' = NoErr
    /\ UNCHANGED <<nodes, pass, year, debug, location, table_collection, es,
                   model, results, dumpfile, serial>>

\* Scenario.load_csv(path)
load_csv ==
    /\ location' = CsvPath
    /\ IF ~disk.isdir
       THEN /\ err' = Raised("FileNotFoundError")
            /\ UNCHANGED table_collection
       ELSE LET csvs == {f \in DOMAIN disk.files : last4(f) = CsvExt}
                loaded == [n \in {drop4(f) : f \in csvs} |->
                              parsed(disk.files[n \o CsvExt])]
            IN /\ table_collection' = update(table_collection, loaded)
               /\ err' = NoErr
    /\ last' = Call("load_csv", "None", "None",
                    DOMAIN table_collection # {}, FALSE)
    /\ UNCHANGED <<nodes, pass, year, debug, es, model, results, dumpfile,
                   disk, saved, serial>>

\* Scenario.to_excel(filename): os.makedirs('') raises for a filename
\* without a directory part
to_excel(filename) ==
    /\ IF filename.dir = ""
       THEN /\ err' = Raised("FileNotFoundError")
            /\ UNCHANGED <<disk, saved>>
       ELSE /\ disk' = [disk EXCEPT !.xls =
                          [exists |-> TRUE,
                           sheets |-> [n \in DOMAIN table_collection |->
                                         written(table_collection[n])]]]
            /\ saved' = [saved EXCEPT !.xls = table_collection]
            /\ err' = NoErr
    /\ last' = Call("to_excel", "None", "None", disk.xls.exists, FALSE)
    /\ UNCHANGED <<nodes, pass, year, debug, location, table_collection, es,
                   model, results, dumpfile, serial>>

\* Scenario.load_excel(filename)
load_excel(filename) ==
    /\ location' = filename
    /\ IF filename.dir = "" \/ ~disk.xls.exists
       THEN /\ err' = Raised("FileNotFoundError")
            /\ UNCHANGED table_collection
       ELSE /\ table_collection' =
                 update(table_collection,
                        [n \in DOMAIN disk.xls.sheets |->
                            parsed(disk.xls.sheets[n])])
            /\ err' = NoErr
    /\ last' = Call("load_excel", "None", "None",
                    DOMAIN table_collection # {}, FALSE)
    /\ UNCHANGED <<nodes, pass, year, debug, es, model, results, dumpfile,
                   disk, saved, serial>>

\* df.isnull().values.any()
isnull_any(df) == \E c \in DOMAIN df : \E r \in DOMAIN df[c] : df[c][r] = "NaN"

\* df[column].isnull().any()
column_isnull_any(df, column) == \E r \in DOMAIN df[column] : df[column][r] = "NaN"

\* every column listed once the table has a missing value
null_columns_all(df) == Columns

\* the list c that Scenario.check_table collects
null_columns(df) ==
    LET test(column) == column_isnull_any(df, column)
    IN SelectSeq(Columns, test)

\* Scenario.check_table(table_name)
check_table(table_name) ==
    /\ IF table_name \notin DOMAIN table_collection
       THEN err' = [type |-> "KeyError", table |-> table_name]
       ELSE IF isnull_any(table_collection[table_name])
       THEN err' = [type |-> "ValueError", table |-> table_name,
                    columns |-> null_columns(table_collection[table_name])]
       ELSE err' = NoErr
    /\ last' = [Call("check_table", "None", "None",
                      table_name \in DOMAIN table_collection, FALSE)
                    EXCEPT !.table = table_name]
    /\ UNCHANGED <<nodes, pass, year, debug, location, table_collection, es,
                   model, results, dumpfile, disk, saved, serial>>

\* ----------------------------------------------------------- specifications
\* a table without and a table with a missing value
FullTable == [c \in ColumnSet |-> [r \in 1..NRows |-> "x"]]
SampleCollection == [n \in {<<"c">>} |-> FullTable]

\* the state left by the constructors NodeDict() and Scenario(**kwargs)
Constructed(tc, y, d) ==
    /\ nodes = EmptyDict
    /\ pass = [reuse |-> FALSE, stage |-> "registering"]
    /\ table_collection = tc
    /\ year = y
    /\ debug = d
    /\ model = NoModel
    /\ es = NoES
    /\ results = 0
    /\ location = NoLocation
    /\ saved = [csv |-> EmptyCollection, fresh |-> FALSE,
                xls |-> EmptyCollection]
    /\ serial = [es |-> 0, runs |-> 0]
    /\ last = Call("Scenario", "None", "None", FALSE, FALSE)
    /\ err = NoErr

\* the files the scenario finds: a csv-collection with one table, and
\* possibly the dump of an energy system solved by an earlier run
SolvedDump ==
    [id |-> 1, steps |-> DebugSteps, nodes |-> {"n1"}, main |-> 1,
     facets |-> Facets, meta |-> {"in_location", "file_date", "oemof_version"}]
SampleDisk ==
    [isdir |-> TRUE,
     files |-> [f \in {csv_filename(<<"c">>)} |-> written(FullTable)],
     xls |-> [exists |-> FALSE, sheets |-> EmptyCollection]]

\* the node dictionary alone
InitNodes ==
    /\ Constructed(EmptyCollection, NoneYear, "None")
    /\ dumpfile = NoDump
    /\ disk = SampleDisk

NextNodes ==
    \/ NodeDict_init
    \/ \E key \in Keys, item \in NodeVals : NodeDict_setitem(key, item)

SpecNodes == InitNodes /\ [][NextNodes]_vars

\* the build pass: nodes are registered, handed to the energy system and
\* the model is created
Init ==
    /\ \E tc \in {EmptyCollection}, y \in YearVals, d \in DebugVals,
          dump \in {NoDump, SolvedDump} :
          /\ Constructed(tc, y, d)
          /\ dumpfile = dump
    /\ disk = SampleDisk

Next ==
    \/ NodeDict_init
    \/ \E key \in Keys, item \in {"None", "n1"} : NodeDict_setitem(key, item)
    \/ \E y \in {NoneYear, StrYear, IntYear(2020)} : initialise_es(y)
    \/ add_nodes
    \/ add_nodes2solph
    \/ create_model
    \/ restore_es

Spec == Init /\ [][Next]_vars

\* loading, building and solving a scenario
InitSolve ==
    /\ \E y \in {IntYear(2019), IntYear(2020)}, d \in DebugVals :
          Constructed(SampleCollection, y, d)
    /\ dumpfile = NoDump
    /\ disk = SampleDisk

NextSolve ==
    \/ \E d \in DebugVals : Scenario_init(SampleCollection, IntYear(2019), d)
    \/ load_csv
    \/ \E filename \in ExcelFiles : load_excel(filename)
    \/ NodeDict_setitem("a", "n1")
    \/ \E y \in {NoneYear, IntYear(2020)} : initialise_es(y)
    \/ add_nodes
    \/ create_model
    \/ \E solver_ok \in BOOLEAN : solve(solver_ok)
    \/ dump_es
    \/ restore_es

SpecSolve == InitSolve /\ [][NextSolve]_vars

\* the table collections a scenario is constructed with
MaxTables == 2
Collections ==
    UNION {[names -> Tables] :
              names \in {ns \in SUBSET TableNames : Cardinality(ns) <= MaxTables}}

\* checking the tables a scenario was constructed with or has loaded
InitCheck ==
    /\ \E tc \in Collections : Constructed(tc, IntYear(2019), "None")
    /\ dumpfile = NoDump
    /\ disk = SampleDisk

NextCheck ==
    \/ \E table_name \in TableNames : check_table(table_name)
    \/ load_csv

SpecCheck == InitCheck /\ [][NextCheck]_vars

\* saving, loading and checking tables; the target directory does not
\* exist yet or holds a file that is no csv file
InitTables ==
    /\ \E tc \in Collections : Constructed(tc, IntYear(2019), "None")
    /\ dumpfile = NoDump
    /\ \E isdir \in BOOLEAN :
          disk = [isdir |-> isdir,
                  files |-> IF isdir
                            THEN [f \in {ForeignFile} |-> written(FullTable)]
                            ELSE EmptyCollection,
                  xls |-> [exists |-> FALSE, sheets |-> EmptyCollection]]

NextTables ==
    \/ Scenario_init(EmptyCollection, IntYear(2019), "None")
    \/ to_csv
    \/ load_csv
    \/ \E filename \in ExcelFiles : to_excel(filename)
    \/ \E filename \in ExcelFiles : load_excel(filename)
    \/ \E table_name \in TableNames : check_table(table_name)

SpecTables == InitTables /\ [][NextTables]_vars

\* ------------------------------------------------------------------- claims
\* the calls that run Scenario.initialise_energy_system
Initialising ==
    \/ last.op = "initialise_es"
    \/ last.op \in {"add_nodes", "add_nodes2solph"} /\ ~last.had

\* C1: once a key has been registered, every later registration of that key
\* raises the duplicate-key error and the key keeps its first item.
C1_WriteOnce ==
    [][\A k \in DOMAIN nodes :
          (last'.op = "setitem" /\ last'.key = k)
             => /\ err'.type = "KeyError"
                /\ k \in DOMAIN nodes'
                /\ nodes'[k] = nodes[k]]_vars

\* C2: registering a key that is not in the node dictionary succeeds, and
\* the key then looks up to exactly the registered item.
C2_RegisterAbsent ==
    (last.op = "setitem" /\ ~last.had)
       => /\ err.type = "none"
          /\ last.key \in DOMAIN nodes
          /\ nodes[last.key] = last.item

C2_Witness ==
    /\ last.op = "setitem" /\ ~last.had /\ err.type = "none"
    /\ nodes[last.key] = "n1"
    /\ DOMAIN nodes = Keys

\* C3: a registration that raises leaves the node dictionary as it was, a
\* successful one changes the entry of its key only, and no registration
\* ever replaces an item that is already stored.
C3_Frame ==
    [][last'.op = "setitem"
          => /\ err'.type # "none" => nodes' = nodes
             /\ \A j \in DOMAIN nodes \ {last'.key} :
                   j \in DOMAIN nodes' /\ nodes'[j] = nodes[j]
             /\ \A j \in DOMAIN nodes :
                   j \in DOMAIN nodes' /\ nodes'[j] = nodes[j]]_vars

\* C4 as stated: the time index has 3 steps whenever debug is True, whatever
\* the year (an unset year included), and otherwise 8784 steps in a leap
\* year and 8760 in every other integer year.
C4_Original ==
    Initialising
       => /\ debug = "True" => last.made /\ es.steps = 3
          /\ (debug # "True" /\ year.kind = "int")
                => /\ last.made
                   /\ es.steps = IF \/ year.val % 4 = 0 /\ year.val % 100 # 0
                                    \/ year.val % 400 = 0
                                 THEN 8784 ELSE 8760

\* C4 amended: for an integer year the time index has 3 steps when debug is
\* True, otherwise 8784 steps in a leap year and 8760 in any other year;
\* without an integer year no time index is built, in debug mode as well.
C4_TimeSteps ==
    Initialising
       => /\ last.made <=> year.kind = "int"
          /\ last.made
                => es.steps = IF debug = "True" THEN 3
                              ELSE IF \/ year.val % 4 = 0 /\ year.val % 100 # 0
                                      \/ year.val % 400 = 0
                                   THEN 8784 ELSE 8760

C4_Witness ==
    /\ last.op = "initialise_es" /\ last.made
    /\ debug = "True" /\ year = IntYear(1900) /\ es.steps = 3

\* C5: a year from which the leap-year status cannot be determined makes
\* initialise_energy_system raise the TypeError that names the year, and no
\* energy system is created, in debug mode as in any other configuration.
C5_YearTypeError ==
    (Initialising /\ year.kind # "int")
       => /\ err.type = "TypeError"
          /\ err.year = year
          /\ ~last.made

\* C8: a registration that reuses a name of the build pass raises the
\* duplicate-key error and so ends the pass before add_nodes and
\* create_model; a pass without a reuse and with a valid year hands its
\* nodes over and creates the model without an error.
C8_EndToEnd ==
    /\ pass.reuse => pass.stage = "aborted"
    /\ pass.stage = "built" => model # NoModel
    /\ (last.op = "add_nodes" /\ year.kind = "int") => err.type = "none"
    /\ (last.op = "create_model" /\ last.had) => err.type = "none"

\* C10: add_nodes keeps an energy system that exists and adds the nodes to
\* it, creates one from the current year and debug flag only when there is
\* none, and never changes the year; initialise_es changes the year only to
\* a year argument that is not None.
C10_AddNodesKeepsES ==
    [][/\ last'.op = "add_nodes"
            => /\ year' = year
               /\ es # NoES
                     => /\ ~last'.made
                        /\ es' = [es EXCEPT !.nodes = es.nodes \cup values(nodes)]
               /\ (es = NoES /\ es' # NoES)
                     => /\ last'.made
                        /\ es'.nodes = values(nodes)
                        /\ es'.steps =
                              initialise_energy_system(year, debug).steps
       /\ last'.op = "initialise_es"
            => year' = IF last'.year = NoneYear THEN year ELSE last'.year]_vars

C10_Witness ==
    /\ last.op = "add_nodes" /\ last.had /\ err.type = "none"
    /\ es.id = 2 /\ "n1" \in es.nodes

\* C9: when the solver returns without error, solve leaves the four result
\* facets on the energy system and Scenario.results equal to the main
\* results, whether or not the tables were loaded from a file.
C9_SolveResults ==
    (last.op = "solve" /\ last.had /\ err.type # "SolverError")
       => /\ es.facets = Facets
          /\ results # 0
          /\ results = es.main

\* C6: check_table raises exactly when the table has a missing value; the
\* error names the table and lists the columns with a missing value, each
\* once and no other; the table collection is not changed.
C6_CheckTable ==
    [][(last'.op = "check_table" /\ last'.had)
          => LET df == table_collection[last'.table]
                 nulls == {c \in DOMAIN df :
                             \E r \in DOMAIN df[c] : df[c][r] = "NaN"}
             IN /\ table_collection' = table_collection
                /\ err'.type = (IF nulls = {} THEN "none" ELSE "ValueError")
                /\ nulls # {}
                      => /\ err'.table = last'.table
                         /\ Len(err'.columns) = Cardinality(nulls)
                         /\ {err'.columns[i] : i \in DOMAIN err'.columns}
                               = nulls]_vars

C6_Witness ==
    /\ last.op = "check_table" /\ last.had
    /\ err.type = "ValueError" /\ err.columns = <<"c2">>

\* C7: loading what to_csv saved into a new directory, into a scenario
\* without tables, gives the saved tables under their names with spaces
\* replaced by underscores, none lost; loading what to_excel saved gives
\* the saved tables under their names.
C7_RoundTrip ==
    /\ (last.op = "load_csv" /\ ~last.had /\ err.type = "none" /\ saved.fresh)
          => /\ DOMAIN table_collection
                   = {replace(n) : n \in DOMAIN saved.csv}
             /\ \A n \in DOMAIN saved.csv :
                   table_collection[replace(n)] = saved.csv[n]
    /\ (last.op = "load_excel" /\ ~last.had /\ err.type = "none")
          => table_collection = saved.xls

====
